---------------------------- MODULE Spec2Model ----------------------------
(***************************************************************************)
(* State-machine model of docker/ocr_server.py: the EasyOCR HTTP service.  *)
(* One process loads the recognition model at import time, then serves     *)
(* POST /predict/ocr (predict) and GET / (health) from a threaded listener.*)
(***************************************************************************)
EXTENDS Integers, Sequences, FiniteSets, TLC

(***************************************************************************)
(* Bounds of the model                                                     *)
(***************************************************************************)
\* longest "images" list a client sends
MaxImages == 2
\* names the temp directory can hand out
NumTempNames == 2

\* the threads the threaded listener starts, one for each request it accepts
Threads == {"w1", "w2"}
TempNames == 1..NumTempNames

(***************************************************************************)
(* Values                                                                  *)
(***************************************************************************)
NoName == 0
NoExc == "<none>"
Nobody == "nobody"
NoFile == [exists |-> FALSE, data |-> <<>>, by |-> Nobody]
NoResponse == [code |-> 0]

\* the standard base64 alphabet, value of a character = its position - 1
B64Alphabet ==
    << "A","B","C","D","E","F","G","H","I","J","K","L","M","N","O","P",
       "Q","R","S","T","U","V","W","X","Y","Z","a","b","c","d","e","f",
       "g","h","i","j","k","l","m","n","o","p","q","r","s","t","u","v",
       "w","x","y","z","0","1","2","3","4","5","6","7","8","9","+","/" >>

IsB64Char(c) == \E k \in 1..Len(B64Alphabet) : B64Alphabet[k] = c

B64Val(c) == (CHOOSE k \in 1..Len(B64Alphabet) : B64Alphabet[k] = c) - 1

\* one step of the decoder's loop over the input characters;
\* st = [quad_pos, leftchar, pads, out, done]
B64Step(st, c) ==
    IF st.done THEN st
    ELSE IF c = "="
    THEN IF st.quad_pos >= 2 /\ st.quad_pos + st.pads + 1 >= 4
         THEN [st EXCEPT !.done = TRUE, !.pads = st.pads + 1]
         ELSE IF st.quad_pos >= 2
              THEN [st EXCEPT !.pads = st.pads + 1]
              ELSE st
    ELSE IF ~IsB64Char(c)
    THEN st
    ELSE LET v == B64Val(c) IN
         CASE st.quad_pos = 0 ->
                [st EXCEPT !.pads = 0, !.quad_pos = 1, !.leftchar = v]
           [] st.quad_pos = 1 ->
                [st EXCEPT !.pads = 0, !.quad_pos = 2,
                           !.out = Append(@, (st.leftchar * 4 + v \div 16) % 256),
                           !.leftchar = v % 16]
           [] st.quad_pos = 2 ->
                [st EXCEPT !.pads = 0, !.quad_pos = 3,
                           !.out = Append(@, (st.leftchar * 16 + v \div 4) % 256),
                           !.leftchar = v % 4]
           [] OTHER ->
                [st EXCEPT !.pads = 0, !.quad_pos = 0,
                           !.out = Append(@, (st.leftchar * 64 + v) % 256),
                           !.leftchar = 0]

RECURSIVE B64Run(_, _, _)
B64Run(st, s, k) ==
    IF k > Len(s) THEN st ELSE B64Run(B64Step(st, s[k]), s, k + 1)

\* base64.b64decode(s) with validate left at its default (False)
B64Decode(s) ==
    LET st == B64Run([quad_pos |-> 0, leftchar |-> 0, pads |-> 0,
                      out |-> <<>>, done |-> FALSE], s, 1)
    IN  IF st.done \/ st.quad_pos = 0
        THEN [ok |-> TRUE, bytes |-> st.out, msg |-> NoExc]
        ELSE IF st.quad_pos = 1
        THEN [ok |-> FALSE, bytes |-> <<>>,
              msg |-> "Invalid base64-encoded string: number of data characters cannot be 1 more than a multiple of 4"]
        ELSE [ok |-> FALSE, bytes |-> <<>>, msg |-> "Incorrect padding"]

\* syntactically valid base64 (RFC 4648): groups of four alphabet characters,
\* the last group may end in "=" or "=="
IsValidB64(s) ==
    /\ Len(s) % 4 = 0
    /\ \A k \in 1..Len(s) :
          \/ IsB64Char(s[k])
          \/ /\ s[k] = "="
             /\ k >= Len(s) - 1
             /\ \A j \in k..Len(s) : s[j] = "="

\* the image payloads clients send
B64Inputs ==
    { <<"Q","U","J","D">>,        \* "QUJD"  = base64 of "ABC"
      <<"Q","U","I","=">>,        \* "QUI="  = base64 of "AB"
      <<"Q","U","!","J","D">>,    \* "QU!JD" : a character outside the alphabet
      <<"Q","U","J">> }           \* "QUJ"   : truncated, padding missing

ImageLists == UNION { [1..n -> B64Inputs] : n \in 0..MaxImages }

\* request bodies: not JSON at all, JSON that is no object, an object without
\* "images", an object whose "images" is a list of payloads (possibly empty)
MalformedBody == [kind |-> "malformed", has_images |-> FALSE, images |-> <<>>]
NonObjectBody == [kind |-> "nonobject", has_images |-> FALSE, images |-> <<>>]
NoImagesBody == [kind |-> "object", has_images |-> FALSE, images |-> <<>>]
ImagesBody(l) == [kind |-> "object", has_images |-> TRUE, images |-> l]
EmptyImagesBody == ImagesBody(<<>>)

Bodies ==
    {MalformedBody, NonObjectBody, NoImagesBody} \cup {ImagesBody(l) : l \in ImageLists}

(***************************************************************************)
(* What reader.readtext hands back.  A detection is a tuple                *)
(* (bbox, text, confidence); coordinates are in tenths of a pixel and      *)
(* confidences in hundredths, so that int() and float() have work to do.   *)
(***************************************************************************)
PyFloat(n) == [t |-> "float", s |-> "", n |-> n]
PyStrVal(s) == [t |-> "str", s |-> s, n |-> 0]
PyIntVal(n) == [t |-> "int", s |-> "", n |-> n]
PyNone == [t |-> "None", s |-> "", n |-> 0]

Box1 == << <<105, 207>>, <<1009, 207>>, <<1009, 451>>, <<105, 451>> >>
Box2 == << <<-15, 600>>, <<300, 598>>, <<301, 709>>, <<-14, 711>> >>

Det1 == << Box1, PyStrVal("lemon"), PyFloat(93) >>
Det2 == << Box2, PyIntVal(42), PyFloat(50) >>
\* detections that break the (bbox, text, confidence) shape
DetNoScore == << Box2, PyStrVal("x"), PyNone >>
DetShort == << Box1, PyStrVal("x") >>

\* the outcomes of one call of reader.readtext: it raises, or returns a list
RaisedOutput == [raised |-> TRUE, dets |-> <<>>]
Returned(dets) == [raised |-> FALSE, dets |-> dets]

ReaderOutputs ==
    { RaisedOutput,
      Returned(<<Det1, Det2>>),
      Returned(<<Det2>>),
      Returned(<<Det1, DetNoScore>>),
      Returned(<<DetShort>>) }

\* int(x): truncation toward zero
PyInt(x10) == IF x10 >= 0 THEN x10 \div 10 ELSE -((-x10) \div 10)

\* str(text)
PyStr(x) == IF x.t = "str" THEN x.s ELSE ToString(x.n)

\* [[int(p[0]), int(p[1])] for p in bbox]
BboxList(bbox) == [k \in 1..Len(bbox) |-> <<PyInt(bbox[k][1]), PyInt(bbox[k][2])>>]

(***************************************************************************)
(* State                                                                   *)
(***************************************************************************)
VARIABLES
    mainPc,       \* where the main program is: "import", "main", "serving", "crashed"
    reader,       \* the module-level EasyOCR reader
    readerInits,  \* how many times easyocr.Reader(...) has been constructed
    fs,           \* the temp directory: name -> file
    pc,           \* per thread: position in predict()
    body,         \* per thread: the request body
    images,       \* per thread: predict's local 'images'
    idx,          \* per thread: images consumed by the for loop
    img_data,     \* per thread: predict's local 'img_data'
    temp_path,    \* per thread: predict's local 'temp_path'
    ocr_result,   \* per thread: predict's local 'ocr_result'
    pending,      \* per thread: the exception in flight while 'finally' runs
    item,         \* per thread: detections consumed by the inner for loop
    dt_polys,     \* per thread: predict's local 'dt_polys'
    rec_texts,    \* per thread: predict's local 'rec_texts'
    rec_scores,   \* per thread: predict's local 'rec_scores'
    results,      \* per thread: predict's local 'results'
    exc,          \* per thread: str(e) of the exception caught at line 97
    response,     \* per thread: the response predict returned
    trace,        \* per thread: what the request did to the outside world
    lastHealth    \* the latest response of health()

mainVars == <<mainPc, reader, readerInits>>
healthVars == <<lastHealth>>
locals == <<body, images, idx, img_data, temp_path, ocr_result, pending, item,
            dt_polys, rec_texts, rec_scores, results, exc>>
reqVars == <<pc, locals, response, trace>>
vars == <<mainVars, fs, reqVars, healthVars>>

NoReader == [langs |-> <<>>, gpu |-> FALSE, loaded |-> FALSE]
\* easyocr.Reader(['ch_sim', 'en'], gpu=False)
TheReader == [langs |-> <<"ch_sim", "en">>, gpu |-> FALSE, loaded |-> TRUE]

Event(op, i, ok, path, by, data, out) ==
    [op |-> op, i |-> i, ok |-> ok, path |-> path, by |-> by, data |-> data, out |-> out]

Init ==
    /\ mainPc = "import"
    /\ reader = NoReader
    /\ readerInits = 0
    /\ fs = [n \in TempNames |-> NoFile]
    /\ pc = [t \in Threads |-> "fresh"]
    /\ body = [t \in Threads |-> NoImagesBody]
    /\ images = [t \in Threads |-> <<>>]
    /\ idx = [t \in Threads |-> 0]
    /\ img_data = [t \in Threads |-> <<>>]
    /\ temp_path = [t \in Threads |-> NoName]
    /\ ocr_result = [t \in Threads |-> <<>>]
    /\ pending = [t \in Threads |-> NoExc]
    /\ item = [t \in Threads |-> 0]
    /\ dt_polys = [t \in Threads |-> <<>>]
    /\ rec_texts = [t \in Threads |-> <<>>]
    /\ rec_scores = [t \in Threads |-> <<>>]
    /\ results = [t \in Threads |-> <<>>]
    /\ exc = [t \in Threads |-> NoExc]
    /\ response = [t \in Threads |-> NoResponse]
    /\ trace = [t \in Threads |-> <<>>]
    /\ lastHealth = NoResponse

(***************************************************************************)
(* Startup: lines 15-21 (module level) and 116-123 (__main__)              *)
(***************************************************************************)
\* reader = easyocr.Reader(...): returns the reader, or raises and the import dies
LoadReader ==
    /\ mainPc = "import"
    /\ \E ok \in BOOLEAN :
          IF ok
          THEN /\ reader' = TheReader
               /\ readerInits' = readerInits + 1
               /\ mainPc' = "main"
          ELSE /\ mainPc' = "crashed"
               /\ UNCHANGED <<reader, readerInits>>
    /\ UNCHANGED <<fs, reqVars, healthVars>>

\* app.run(host='0.0.0.0', port=8866, threaded=True)
AppRun ==
    /\ mainPc = "main"
    /\ mainPc' = "serving"
    /\ UNCHANGED <<reader, readerInits, fs, reqVars, healthVars>>

\* a listener started before the reader is built
ListeningFromTheStart == mainPc # "crashed"

\* the listener is up
Listening == mainPc = "serving"

(***************************************************************************)
(* predict(): POST /predict/ocr, lines 24-103                              *)
(***************************************************************************)
Log(t, e) == trace' = [trace EXCEPT ![t] = Append(@, e)]

\* a handler that swallows the failure and goes on with the next image
RaiseAndContinue(t, msg) ==
    /\ exc' = [exc EXCEPT ![t] = msg]
    /\ pc' = [pc EXCEPT ![t] = "loop"]

\* raise: control goes to the except clause of line 97 with str(e) = msg
Raise(t, msg) ==
    /\ exc' = [exc EXCEPT ![t] = msg]
    /\ pc' = [pc EXCEPT ![t] = "except"]

\* the threaded listener accepts a request with body b and starts thread t on it
Accept(t, b) ==
    /\ Listening
    /\ pc[t] = "fresh"
    /\ body' = [body EXCEPT ![t] = b]
    /\ pc' = [pc EXCEPT ![t] = "parse"]
    /\ UNCHANGED <<mainVars, fs, images, idx, img_data, temp_path, ocr_result,
                   pending, item, dt_polys, rec_texts, rec_scores, results, exc,
                   response, trace, healthVars>>

\* data.get('images', [])
DictGet(b) == IF b.has_images THEN b.images ELSE <<>>

\* the same rejection with the status code left at its default
NoImagesResponseDefaultCode ==
    [code |-> 200, body |-> [status |-> "error", msg |-> "No images provided"]]

\* jsonify({'status': 'error', 'msg': 'No images provided'}), 400
NoImagesResponse ==
    [code |-> 400, body |-> [status |-> "error", msg |-> "No images provided"]]

\* lines 45-54: request.json, data.get, the emptiness check, results = []
ParseBody(t) ==
    /\ pc[t] = "parse"
    /\ CASE body[t].kind = "malformed" ->
              /\ Raise(t, "400 Bad Request: Failed to decode JSON object")
              /\ UNCHANGED <<images, results, response>>
         [] body[t].kind = "nonobject" ->
              /\ Raise(t, "'list' object has no attribute 'get'")
              /\ UNCHANGED <<images, results, response>>
         [] OTHER ->
              LET got == DictGet(body[t]) IN
              /\ images' = [images EXCEPT ![t] = got]
              /\ IF got = <<>>
                 THEN /\ response' = [response EXCEPT ![t] = NoImagesResponse]
                      /\ pc' = [pc EXCEPT ![t] = "done"]
                      /\ UNCHANGED <<results, exc>>
                 ELSE /\ results' = [results EXCEPT ![t] = <<>>]
                      /\ pc' = [pc EXCEPT ![t] = "loop"]
                      /\ UNCHANGED <<response, exc>>
    /\ UNCHANGED <<mainVars, fs, body, idx, img_data, temp_path,
                   ocr_result, pending, item, dt_polys, rec_texts, rec_scores,
                   trace, healthVars>>

\* lines 56-58: the for loop takes the next image and decodes it
NextImage(t) ==
    /\ pc[t] = "loop"
    /\ idx[t] < Len(images[t])
    /\ LET i == idx[t] + 1
           d == B64Decode(images[t][i])
       IN  /\ idx' = [idx EXCEPT ![t] = i]
           /\ Log(t, Event("decode", i, d.ok, NoName, Nobody, d.bytes, <<>>))
           /\ IF d.ok
              THEN /\ img_data' = [img_data EXCEPT ![t] = d.bytes]
                   /\ pc' = [pc EXCEPT ![t] = "save"]
                   /\ UNCHANGED exc
              ELSE /\ Raise(t, d.msg)
                   /\ UNCHANGED img_data
    /\ UNCHANGED <<mainVars, fs, body, images, temp_path,
                   ocr_result, pending, item, dt_polys, rec_texts, rec_scores,
                   results, response, healthVars>>

\* a name generator that does not look at what exists
AnyName == TempNames

\* the names NamedTemporaryFile may create: it opens with O_EXCL, so never a
\* name that exists
FreeNames == {n \in TempNames : ~fs[n].exists}

\* lines 60-62: with tempfile.NamedTemporaryFile(suffix='.png', delete=False)
\* as f: f.write(img_data); temp_path = f.name
SaveTemp(t) ==
    /\ pc[t] = "save"
    /\ \/ \* the file cannot be created
          /\ Log(t, Event("save", idx[t], FALSE, NoName, Nobody, <<>>, <<>>))
          /\ Raise(t, IF FreeNames = {} THEN "[Errno 17] No usable temporary file name found"
                                         ELSE "[Errno 13] Permission denied")
          /\ UNCHANGED <<fs, temp_path>>
       \/ \* created, but the write (or the flush at close) fails: the file stays
          \E n \in FreeNames :
             /\ fs' = [fs EXCEPT ![n] = [exists |-> TRUE, data |-> <<>>, by |-> t]]
             /\ Log(t, Event("save", idx[t], FALSE, n, t, <<>>, <<>>))
             /\ Raise(t, "[Errno 28] No space left on device")
             /\ UNCHANGED temp_path
       \/ \* created, written and closed
          \E n \in FreeNames :
             /\ fs' = [fs EXCEPT ![n] = [exists |-> TRUE, data |-> img_data[t], by |-> t]]
             /\ Log(t, Event("save", idx[t], TRUE, n, t, img_data[t], <<>>))
             /\ temp_path' = [temp_path EXCEPT ![t] = n]
             /\ pc' = [pc EXCEPT ![t] = "readtext"]
             /\ UNCHANGED exc
    /\ UNCHANGED <<mainVars, body, images, idx, img_data,
                   ocr_result, pending, item, dt_polys, rec_texts, rec_scores,
                   results, response, healthVars>>

\* line 67: ocr_result = reader.readtext(temp_path), inside try; outs are the
\* outcomes the recognition engine may produce
ReadText(t, outs) ==
    /\ pc[t] = "readtext"
    /\ LET f == fs[temp_path[t]] IN
       IF ~f.exists
       THEN /\ Log(t, Event("readtext", idx[t], FALSE, temp_path[t], Nobody, <<>>, <<>>))
            /\ pending' = [pending EXCEPT ![t] = "No such file or directory"]
            /\ UNCHANGED ocr_result
       ELSE \E o \in outs :
            /\ Log(t, Event("readtext", idx[t], ~o.raised, temp_path[t], f.by, f.data, o.dets))
            /\ IF o.raised
               THEN /\ pending' = [pending EXCEPT ![t] = "cannot identify image file"]
                    /\ UNCHANGED ocr_result
               ELSE /\ pending' = [pending EXCEPT ![t] = NoExc]
                    /\ ocr_result' = [ocr_result EXCEPT ![t] = o.dets]
    /\ pc' = [pc EXCEPT ![t] = "remove"]
    /\ UNCHANGED <<mainVars, fs, body, images, idx, img_data,
                   temp_path, item, dt_polys, rec_texts, rec_scores, results,
                   exc, response, healthVars>>

\* lines 68-75: finally: os.remove(temp_path); then the exception in flight
\* goes on, or the three lists are reset for the reshape
RemoveTemp(t) ==
    /\ pc[t] = "remove"
    /\ LET f == fs[temp_path[t]] IN
       \/ \* os.remove raises: the file is not there, or cannot be removed
          /\ Log(t, Event("remove", idx[t], FALSE, temp_path[t], f.by, <<>>, <<>>))
          /\ Raise(t, IF f.exists THEN "[Errno 13] Permission denied"
                                  ELSE "[Errno 2] No such file or directory")
          /\ UNCHANGED <<fs, item, dt_polys, rec_texts, rec_scores>>
       \/ /\ f.exists
          /\ fs' = [fs EXCEPT ![temp_path[t]] = NoFile]
          /\ Log(t, Event("remove", idx[t], TRUE, temp_path[t], f.by, <<>>, <<>>))
          /\ IF pending[t] # NoExc
             THEN /\ Raise(t, pending[t])
                  /\ UNCHANGED <<item, dt_polys, rec_texts, rec_scores>>
             ELSE /\ pc' = [pc EXCEPT ![t] = "reshape"]
                  /\ item' = [item EXCEPT ![t] = 0]
                  /\ dt_polys' = [dt_polys EXCEPT ![t] = <<>>]
                  /\ rec_texts' = [rec_texts EXCEPT ![t] = <<>>]
                  /\ rec_scores' = [rec_scores EXCEPT ![t] = <<>>]
                  /\ UNCHANGED exc
    /\ pending' = [pending EXCEPT ![t] = NoExc]
    /\ UNCHANGED <<mainVars, body, images, idx, img_data,
                   temp_path, ocr_result, results, response, healthVars>>

\* rec_texts.append only for values that are strings already
AppendTextIfStr(texts, x) == IF x.t = "str" THEN Append(texts, x.s) ELSE texts

\* line 83: rec_texts.append(str(text))
AppendText(texts, x) == Append(texts, PyStr(x))

\* lines 77-84: one round of 'for item in ocr_result': unpack, convert, append
ReshapeItem(t) ==
    /\ pc[t] = "reshape"
    /\ item[t] < Len(ocr_result[t])
    /\ LET d == ocr_result[t][item[t] + 1] IN
       /\ item' = [item EXCEPT ![t] = item[t] + 1]
       /\ IF Len(d) # 3
          THEN \* bbox, text, confidence = item
               /\ Raise(t, "not enough values to unpack (expected 3)")
               /\ UNCHANGED <<dt_polys, rec_texts, rec_scores>>
          ELSE /\ dt_polys' = [dt_polys EXCEPT ![t] = Append(@, BboxList(d[1]))]
               /\ rec_texts' = [rec_texts EXCEPT ![t] = AppendText(@, d[2])]
               /\ IF d[3].t = "float"
                  THEN /\ rec_scores' = [rec_scores EXCEPT ![t] = Append(@, d[3].n)]
                       /\ UNCHANGED <<pc, exc>>
                  ELSE \* float(confidence) raises after two of the appends
                       /\ Raise(t, "float() argument must be a string or a real number")
                       /\ UNCHANGED rec_scores
    /\ UNCHANGED <<mainVars, fs, body, images, idx, img_data,
                   temp_path, ocr_result, pending, results, response, trace,
                   healthVars>>

\* the item appended for one image
ResultItem(polys, texts, scores) ==
    [dt_polys |-> polys, rec_texts |-> texts, rec_scores |-> scores]

\* results.insert(0, ...) in place of results.append(...)
PrependItem(res, it) == <<it>> \o res

\* line 86: results.append(...)
AppendItem(res, it) == Append(res, it)

\* lines 86-90: results.append({...}) once the inner loop is over
AppendResult(t) ==
    /\ pc[t] = "reshape"
    /\ item[t] = Len(ocr_result[t])
    /\ results' = [results EXCEPT ![t] =
                      AppendItem(@, ResultItem(dt_polys[t], rec_texts[t], rec_scores[t]))]
    /\ pc' = [pc EXCEPT ![t] = "loop"]
    /\ UNCHANGED <<mainVars, fs, body, images, idx, img_data,
                   temp_path, ocr_result, pending, item, dt_polys, rec_texts,
                   rec_scores, exc, response, trace, healthVars>>

\* jsonify({'status': '000', 'results': results})
OkResponse(res) == [code |-> 200, body |-> [status |-> "000", results |-> res]]

\* an error body without the status field
ErrorResponseBare(msg) == [code |-> 500, body |-> [msg |-> msg]]

\* jsonify({'status': 'error', 'msg': str(e)}), 500
ErrorResponse(msg) == [code |-> 500, body |-> [status |-> "error", msg |-> msg]]

\* lines 92-95: the loop is over
ReturnOk(t) ==
    /\ pc[t] = "loop"
    /\ idx[t] = Len(images[t])
    /\ response' = [response EXCEPT ![t] = OkResponse(results[t])]
    /\ pc' = [pc EXCEPT ![t] = "done"]
    /\ UNCHANGED <<mainVars, fs, locals, trace, healthVars>>

\* lines 97-103: except Exception as e
Except(t) ==
    /\ pc[t] = "except"
    /\ response' = [response EXCEPT ![t] = ErrorResponse(exc[t])]
    /\ pc' = [pc EXCEPT ![t] = "done"]
    /\ UNCHANGED <<mainVars, fs, locals, trace, healthVars>>

\* the response is sent, the frame and the thread are gone
Finish(t) ==
    /\ pc[t] = "done"
    /\ pc' = [pc EXCEPT ![t] = "gone"]
    /\ body' = [body EXCEPT ![t] = NoImagesBody]
    /\ images' = [images EXCEPT ![t] = <<>>]
    /\ idx' = [idx EXCEPT ![t] = 0]
    /\ img_data' = [img_data EXCEPT ![t] = <<>>]
    /\ temp_path' = [temp_path EXCEPT ![t] = NoName]
    /\ ocr_result' = [ocr_result EXCEPT ![t] = <<>>]
    /\ pending' = [pending EXCEPT ![t] = NoExc]
    /\ item' = [item EXCEPT ![t] = 0]
    /\ dt_polys' = [dt_polys EXCEPT ![t] = <<>>]
    /\ rec_texts' = [rec_texts EXCEPT ![t] = <<>>]
    /\ rec_scores' = [rec_scores EXCEPT ![t] = <<>>]
    /\ results' = [results EXCEPT ![t] = <<>>]
    /\ exc' = [exc EXCEPT ![t] = NoExc]
    /\ response' = [response EXCEPT ![t] = NoResponse]
    /\ trace' = [trace EXCEPT ![t] = <<>>]
    /\ UNCHANGED <<mainVars, fs, healthVars>>

(***************************************************************************)
(* health(): GET /, lines 106-113                                          *)
(***************************************************************************)
\* a health check that reports the service busy while a request is running
HealthResponseWhenIdle ==
    IF \E t \in Threads : pc[t] \notin {"fresh", "done", "gone"}
    THEN [code |-> 503,
          body |-> [status |-> "busy", service |-> "EasyOCR", languages |-> <<"ch_sim", "en">>]]
    ELSE [code |-> 200,
          body |-> [status |-> "ok", service |-> "EasyOCR", languages |-> <<"ch_sim", "en">>]]

\* jsonify({'status': 'ok', 'service': 'EasyOCR', 'languages': ['ch_sim', 'en']})
HealthResponse ==
    [code |-> 200,
     body |-> [status |-> "ok", service |-> "EasyOCR", languages |-> <<"ch_sim", "en">>]]

Health ==
    /\ Listening
    /\ lastHealth' = HealthResponse
    /\ UNCHANGED <<mainVars, fs, reqVars>>

\* the steps of a request that has been accepted
Serve(t, outs) ==
    \/ ParseBody(t)
    \/ NextImage(t)
    \/ SaveTemp(t)
    \/ ReadText(t, outs)
    \/ RemoveTemp(t)
    \/ ReshapeItem(t)
    \/ AppendResult(t)
    \/ ReturnOk(t)
    \/ Except(t)
    \/ Finish(t)

\* one client, any request body
Next ==
    \/ LoadReader
    \/ AppRun
    \/ Health
    \/ \E b \in Bodies : Accept("w1", b)
    \/ Serve("w1", ReaderOutputs)

Spec == Init /\ [][Next]_vars

\* the bodies of the requests that run side by side
ConcurrentBodies ==
    { ImagesBody(<< <<"Q","U","J","D">> >>),
      ImagesBody(<< <<"Q","U","I","=">>, <<"Q","U","J","D">> >>) }

\* what the engine returns to them: it raises, or returns well-formed lists
ConcurrentOutputs == { RaisedOutput, Returned(<<Det1, Det2>>), Returned(<<Det2>>) }

\* two clients at the same time, each with a valid request
NextConcurrent ==
    \/ LoadReader
    \/ AppRun
    \/ Health
    \/ \E t \in Threads :
          \/ \E b \in ConcurrentBodies : Accept(t, b)
          \/ Serve(t, ConcurrentOutputs)

SpecConcurrent == Init /\ [][NextConcurrent]_vars

(***************************************************************************)
(* Properties                                                              *)
(***************************************************************************)
Stages == {"decode", "save", "readtext", "remove"}

\* the trace of t holds an event of stage op for image i
Did(t, op, i) == \E k \in DOMAIN trace[t] : trace[t][k].op = op /\ trace[t][k].i = i

\* ... and it succeeded
DidOk(t, op, i) ==
    \E k \in DOMAIN trace[t] :
       trace[t][k].op = op /\ trace[t][k].i = i /\ trace[t][k].ok

\* the call of the engine made for image i
ReadEvent(t, i) ==
    trace[t][CHOOSE k \in DOMAIN trace[t] :
                 trace[t][k].op = "readtext" /\ trace[t][k].i = i]

\* the result item a list of detections stands for
ItemOf(dets) ==
    [dt_polys |-> [j \in 1..Len(dets) |->
                      [p \in 1..Len(dets[j][1]) |->
                          <<PyInt(dets[j][1][p][1]), PyInt(dets[j][1][p][2])>>]],
     rec_texts |-> [j \in 1..Len(dets) |->
                      IF dets[j][2].t = "str" THEN dets[j][2].s ELSE ToString(dets[j][2].n)],
     rec_scores |-> [j \in 1..Len(dets) |-> dets[j][3].n]]

HasImages(t) ==
    /\ body[t].kind = "object"
    /\ body[t].has_images
    /\ Len(body[t].images) >= 1

\* a detection in the format line 66 documents: (bbox, text, confidence)
WellFormed(d) == Len(d) = 3 /\ d[3].t = "float"

\* the engine's call for image i succeeded: it returned, and returned a list in
\* its documented format
ModelCallOk(t, i) ==
    /\ DidOk(t, "readtext", i)
    /\ \A j \in 1..Len(ReadEvent(t, i).out) : WellFormed(ReadEvent(t, i).out[j])

\* decode, temp-file I/O and the engine's call succeeded for every image
AllStagesOk(t) ==
    \A i \in 1..Len(body[t].images) :
       /\ \A op \in Stages : DidOk(t, op, i)
       /\ ModelCallOk(t, i)

\* 200, "000", one item per image, item i made of the engine's output for the
\* bytes of images[i]
AlignedOk(t) ==
    /\ response[t].code = 200
    /\ DOMAIN response[t].body = {"status", "results"}
    /\ response[t].body.status = "000"
    /\ Len(response[t].body.results) = Len(body[t].images)
    /\ \A i \in 1..Len(body[t].images) :
          /\ ReadEvent(t, i).data = B64Decode(body[t].images[i]).bytes
          /\ response[t].body.results[i] = ItemOf(ReadEvent(t, i).out)

\* C1: a request with N >= 1 images for which decode, temp-file I/O and the
\* engine's call succeed for every image is answered 200 / "000" with N items,
\* item i built from the engine's output for images[i]
C1_AlignedResults ==
    \A t \in Threads :
       (pc[t] = "done" /\ HasImages(t) /\ AllStagesOk(t)) => AlignedOk(t)

\* a two-image request answered 200 whose two items differ
C1_Witness ==
    \E t \in Threads :
       /\ pc[t] = "done"
       /\ Len(body[t].images) = 2
       /\ AllStagesOk(t)
       /\ response[t].code = 200
       /\ response[t].body.results[1] # response[t].body.results[2]

Owns(t) == {n \in TempNames : fs[n].exists /\ fs[n].by = t}

\* C2 as stated: every temp file a request created is gone once the request has
\* returned, whatever failed, and on the success path it is gone before the next
\* image is decoded
C2_NoTempFileLeft ==
    \A t \in Threads :
       /\ pc[t] \in {"done", "gone"} => Owns(t) = {}
       /\ pc[t] \in {"reshape", "loop"} => Owns(t) = {}

\* image k failed at decode, temp-file I/O or the engine's call
FailedAt(t, k) ==
    \E j \in DOMAIN trace[t] : trace[t][j].i = k /\ ~trace[t][j].ok

\* C3: when image k fails, the answer is 500 / "error" without a "results" field,
\* nothing is done for an image after k, and no stage is run twice
C3_FailureAborts ==
    \A t \in Threads : \A k \in 1..MaxImages :
       (pc[t] = "done" /\ FailedAt(t, k)) =>
          /\ response[t].code = 500
          /\ DOMAIN response[t].body = {"status", "msg"}
          /\ response[t].body.status = "error"
          /\ \A j \in DOMAIN trace[t] : trace[t][j].i <= k
          /\ \A a, b \in DOMAIN trace[t] :
                (trace[t][a].op = trace[t][b].op /\ trace[t][a].i = trace[t][b].i) => a = b

\* the second image failed after an item had been built for the first
C3_Witness ==
    \E t \in Threads :
       /\ pc[t] = "done"
       /\ FailedAt(t, 2)
       /\ Len(results[t]) = 1
       /\ Len(body[t].images) = 2

\* C4: "images": [] and a body without "images" are both answered 400 with
\* {"status": "error", "msg": "No images provided"} before anything is decoded,
\* saved or recognised
C4_NoImagesRejected ==
    \A t \in Threads :
       (pc[t] = "done" /\ body[t] \in {EmptyImagesBody, NoImagesBody}) =>
          /\ response[t] =
                [code |-> 400, body |-> [status |-> "error", msg |-> "No images provided"]]
          /\ trace[t] = <<>>
          /\ Owns(t) = {}

\* a body without the "images" field has been answered
C4_Witness ==
    \E t \in Threads :
       /\ pc[t] = "done"
       /\ body[t] = NoImagesBody
       /\ response[t].code = 400

\* C5 as stated: a request with an entry that is not valid base64 is answered 500
\* with a non-empty msg and without the sentinel "000"
C5_InvalidBase64Rejected ==
    \A t \in Threads :
       (/\ pc[t] = "done"
        /\ HasImages(t)
        /\ \E i \in 1..Len(body[t].images) : ~IsValidB64(body[t].images[i]))
       => /\ response[t].code = 500
          /\ "msg" \in DOMAIN response[t].body
          /\ response[t].body.msg # ""
          /\ response[t].body.status # "000"

\* something went wrong while the request was handled
Failure(t) == exc[t] # NoExc \/ (body[t].kind = "object" /\ DictGet(body[t]) = <<>>)

\* C6: a request ends with one response, a JSON object with a "status" field that
\* is "000" on success and "error" on any failure; every failure reaches the
\* except clause
C6_AlwaysStatus ==
    \A t \in Threads :
       /\ pc[t] \notin {"done"} => response[t] = NoResponse
       /\ exc[t] # NoExc => pc[t] \in {"except", "done"}
       /\ pc[t] = "done" =>
             /\ response[t].code \in {200, 400, 500}
             /\ "status" \in DOMAIN response[t].body
             /\ response[t].body.status \in {"000", "error"}
             /\ response[t].body.status = "000" <=> response[t].code = 200
             /\ response[t].body.status = "error" <=> Failure(t)
             /\ \A k \in DOMAIN trace[t] : ~trace[t][k].ok => response[t].body.status = "error"

\* the cleanup itself failed and the caller got the error shape
C6_Witness ==
    \E t \in Threads :
       /\ pc[t] = "done"
       /\ \E k \in DOMAIN trace[t] : trace[t][k].op = "remove" /\ ~trace[t][k].ok
       /\ response[t].body.status = "error"

\* t has a temp file of its own on disk
Live(t) == pc[t] \in {"readtext", "remove"}

\* C7: with two requests running side by side, a 200 response holds the items for
\* the request's own images in its own order, the live temp files have different
\* names, and a request reads and removes only the file it created
C7_Independent ==
    /\ \A t \in Threads :
          (pc[t] = "done" /\ response[t].code = 200) => AlignedOk(t)
    /\ \A t, u \in Threads :
          (t # u /\ Live(t) /\ Live(u)) => temp_path[t] # temp_path[u]
    /\ \A t \in Threads : \A k \in DOMAIN trace[t] :
          (trace[t][k].op \in {"readtext", "remove"} /\ trace[t][k].ok)
             => trace[t][k].by = t
    /\ \A t \in Threads :
          Live(t) => fs[temp_path[t]].exists /\ fs[temp_path[t]].by = t

\* both requests are between save and remove, one of them on its second image
C7_Witness ==
    /\ pc["w1"] = "remove"
    /\ pc["w2"] = "readtext"
    /\ Len(results["w1"]) = 1
    /\ temp_path["w1"] # temp_path["w2"]

Initializing == mainPc \in {"import", "main"}

C8_Inv ==
    /\ readerInits <= 1
    /\ mainPc = "serving" => (readerInits = 1 /\ reader = TheReader)
    /\ (Initializing \/ mainPc = "crashed") =>
          /\ \A t \in Threads : pc[t] = "fresh" /\ response[t] = NoResponse
          /\ lastHealth = NoResponse
    /\ mainPc = "crashed" => readerInits = 0

\* C8: the reader is built once, before the listener is up: no request is handled
\* while initializing, a failed construction leaves the process without a listener
\* for good, and once serving no step builds or changes the reader
C8_ReaderBuiltOnceBeforeServing ==
    /\ []C8_Inv
    /\ [][ /\ mainPc = "crashed" => UNCHANGED vars
           /\ mainPc = "serving" =>
                 UNCHANGED <<mainPc, reader, readerInits>> ]_vars

\* a request and a health check have been answered by the one reader
C8_Witness ==
    /\ \E t \in Threads : pc[t] = "done" /\ response[t].code = 200
    /\ lastHealth # NoResponse
    /\ readerInits = 1

\* C9: in every item of a 200 response the three lists have the length of the
\* engine's list for that image and entry j comes from detection j; no response
\* carries an item whose lengths differ
C9_ItemLists ==
    \A t \in Threads :
       /\ \A i \in DOMAIN results[t] :
             /\ Len(results[t][i].dt_polys) = Len(results[t][i].rec_texts)
             /\ Len(results[t][i].rec_texts) = Len(results[t][i].rec_scores)
       /\ (response[t] # NoResponse /\ "results" \in DOMAIN response[t].body) =>
             \A i \in DOMAIN response[t].body.results :
                LET it == response[t].body.results[i]
                    out == ReadEvent(t, i).out
                IN  /\ Len(it.dt_polys) = Len(out)
                    /\ Len(it.rec_texts) = Len(out)
                    /\ Len(it.rec_scores) = Len(out)
                    /\ \A j \in 1..Len(out) :
                          /\ it.dt_polys[j] = BboxList(out[j][1])
                          /\ it.rec_texts[j] = PyStr(out[j][2])
                          /\ it.rec_scores[j] = out[j][3].n

\* a detection broke the reshape after two of the three appends, and the answer
\* is an error
C9_Witness ==
    \E t \in Threads :
       /\ pc[t] = "done"
       /\ Len(dt_polys[t]) # Len(rec_scores[t])
       /\ response[t].code = 500

\* C10: every health check is answered 200 with the fixed body, whatever the
\* requests are doing, it is answered whenever the listener is up, and it changes
\* nothing
C10_HealthStatic ==
    /\ [](/\ lastHealth \in
               {NoResponse,
                [code |-> 200,
                 body |-> [status |-> "ok", service |-> "EasyOCR",
                           languages |-> <<"ch_sim", "en">>]]}
          /\ mainPc = "serving" => ENABLED Health)
    /\ [][lastHealth' # lastHealth => UNCHANGED <<mainVars, fs, reqVars>>]_vars

\* a health check answered while a request is in the engine
C10_Witness ==
    /\ lastHealth # NoResponse
    /\ \E t \in Threads : pc[t] = "remove" /\ pending[t] # NoExc

====
